---------------------------- MODULE Spec2Model ----------------------------
(***************************************************************************)
(* A model of the Notedown plugin (notedown.py): the title/filename        *)
(* grammar, the directory index and its mtime-stamped cache, title         *)
(* resolution, the per-buffer link cache, and the rename-triggered         *)
(* backlink rewrite.                                                       *)
(*                                                                         *)
(* Strings are sequences of one-character strings, so that str.split,      *)
(* str.strip, str.lower, os.path.splitext and re matching are computed     *)
(* the way the library computes them.                                      *)
(***************************************************************************)
EXTENDS Integers, Sequences, FiniteSets, TLC

VARIABLES
  \* ---- the title parser applied to drawn inputs ----
  tpc,        \* "off" | "input" | "titled" | "built" | "parsed"
  tTitles,    \* the input: a list of title pieces
  tExt,       \* the input: an extension
  tName,      \* the file name built from tTitles and tExt
  tResult,    \* _titles(base name), as a list
  tPrimary,   \* next(_titles(base name))
  tParsed,    \* the titles _find_notes parses out of tName
  \* ---- the notes directory, as the filesystem holds it ----
  files,      \* file name -> text of the file
  dirMtime,   \* os.stat(directory).st_mtime
  dirty,      \* history: the directory changed after it was last listed
  \* ---- notedown module state ----
  _notes_cache,  \* {path: (mtime, notes dict)}
  nextId,     \* identity the next dict object created by _find_notes gets
  \* ---- one call of _find_notes ----
  fpc,        \* "idle" | "list" | "store"
  fListing,   \* what os.listdir returned to the call
  fNotes,     \* the local notes dict, once built
  fResult,    \* the object the last call returned
  hits,       \* history: calls answered from the cache since the last rebuild
  \* ---- one run of NotedownOpenCommand on one selection ----
  opc,        \* "off" | "idle" | "query" | "panel" | "done"
  viewFile,   \* basename of view.file_name()
  markdown_extension,  \* the setting of that name
  oTitle,     \* the title _open_note is called with
  oFilenames, \* the local filenames of _open_note
  oPanel,     \* the items show_quick_panel was called with
  oOpened,    \* the arguments of window.open_file, in call order
  oDialog,    \* the file name the 'Create File' dialog asked about
  oCreated,   \* what _create_note returned
  oError,     \* the path sublime.error_message named
  oOutside,   \* path -> text of the files written outside the notes directory
  runs,       \* history: runs of the command so far
  \* ---- the host's buffers and views, and the link cache ----
  buffers,    \* buffer id -> [text, change_count] of each live buffer
  views,      \* view id -> buffer id of each open view
  primary,    \* buffer id -> the view that is_primary() on it
  nextBuf,    \* the id the next buffer gets
  nextView,   \* the id the next view gets
  _link_regions_cache,  \* {buffer id: (change count, regions)}
  lResult,    \* the object the last call of _find_link_regions returned
  lView,      \* the view of that call
  lScanned,   \* history: that call ran view.find_all
  \* ---- on_post_save_async for the view of one note ----
  rpc,        \* "off" | "idle" | "saved" | "closed"
  rFile,      \* basename of view.file_name()
  rView,      \* the view of the note
  rWas,       \* history: rFile when the last handler began
  rBefore,    \* history: the directory when the last handler began
  rLog,       \* history: what the last handler did, in order
  rReturn,    \* how the last handler's rename step ended
  rCount,     \* what the last call of _update_backlinks returned
  errors,     \* self.errors of the last run of NotedownLintCommand
  saves       \* history: handlers run so far

tvars == <<tpc, tTitles, tExt, tName, tResult, tPrimary, tParsed>>
dvars == <<files, dirMtime, dirty>>
nvars == <<_notes_cache, nextId, fpc, fListing, fNotes, fResult, hits>>
ovars == <<opc, viewFile, markdown_extension, oTitle, oFilenames, oPanel,
           oOpened, oDialog, oCreated, oError, oOutside, runs>>
lvars == <<buffers, views, primary, nextBuf, nextView, _link_regions_cache,
           lResult, lView, lScanned>>
rvars ==
  <<rpc, rFile, rView, rWas, rBefore, rLog, rReturn, rCount, errors, saves>>
vars == <<tvars, dvars, nvars, ovars, lvars, rvars>>

\* the variables outside one group of operations
besidesTitles == <<dvars, nvars, ovars, lvars, rvars>>
besidesIndex == <<tvars, ovars, lvars, rvars>>
besidesOpen == <<tvars, lvars, rvars>>
besidesLinks == <<tvars, dvars, nvars, ovars, rvars>>

(***************************************************************************)
(* Bounds of the model.                                                    *)
(***************************************************************************)
MaxTitleLen == 2   \* longest title piece drawn as an input of the parser
MaxTitles == 2     \* most pieces joined into one base name
MaxFiles == 3      \* most entries in the notes directory
MaxChanges == 1    \* directory changes by other actors in one behaviour
MaxBuilds == 2     \* index rebuilds in one behaviour
MaxHits == 2       \* consecutive index queries answered from the cache
MaxRuns == 2       \* runs of the open command in one behaviour
MaxOpenFiles == 2  \* most entries in the directory the open command starts in
MaxBuffers == 2    \* buffers opened in one behaviour
MaxViews == 2      \* views opened in one behaviour
MaxEdits == 1      \* edits of the open buffers
MaxSaves == 1      \* saves of the note's view in one behaviour

(***************************************************************************)
(* Program constants (notedown.py:53-59).                                  *)
(***************************************************************************)
_TITLE_SEP == "~"

ExtMd == <<".", "m", "d">>
ExtMdown == <<".", "m", "d", "o", "w", "n">>
ExtMarkdown == <<".", "m", "a", "r", "k", "d", "o", "w", "n">>
ExtMarkdn == <<".", "m", "a", "r", "k", "d", "n">>
ExtTxt == <<".", "t", "x", "t">>

_MARKDOWN_EXTENSIONS == {ExtMd, ExtMdown, ExtMarkdown, ExtMarkdn}

(***************************************************************************)
(* Values of names that are not bound (None, an absent key), and the rest  *)
(* state of each part of the model.                                        *)
(***************************************************************************)
NoText == <<>>

\* what dict.get(directory, (None, None)) yields for a missing key, and the
\* value of a name not yet bound
NoMtime == -1
NoObj == [id |-> 0, notes |-> <<>>]

NoFile == <<>>

NoRegions == [id |-> 0, regions |-> <<>>]

\* None where a count of files is expected
NoCount == -1

TitlesOff ==
  /\ tpc = "off" /\ tTitles = <<>> /\ tExt = <<>> /\ tName = <<>>
  /\ tResult = <<>> /\ tPrimary = <<>> /\ tParsed = <<>>

DirOff == files = <<>> /\ dirMtime = 0 /\ dirty = FALSE

NotesOff ==
  /\ _notes_cache = <<>> /\ nextId = 1
  /\ fpc = "idle" /\ fListing = <<>> /\ fNotes = <<>> /\ fResult = NoObj
  /\ hits = 0

OpenOff ==
  /\ opc = "off" /\ viewFile = NoFile /\ markdown_extension = <<>>
  /\ oTitle = <<>> /\ oFilenames = <<>> /\ oPanel = <<>> /\ oOpened = <<>>
  /\ oDialog = NoFile /\ oCreated = NoFile /\ oError = NoFile /\ runs = 0
  /\ oOutside = <<>>

LinksOff ==
  /\ buffers = <<>> /\ views = <<>> /\ primary = <<>>
  /\ nextBuf = 1 /\ nextView = 1
  /\ _link_regions_cache = <<>> /\ lResult = NoRegions
  /\ lView = 0 /\ lScanned = FALSE

RenameOff ==
  /\ rpc = "off" /\ rFile = NoFile /\ rView = 0 /\ rWas = NoFile
  /\ rBefore = <<>> /\ rLog = <<>> /\ rReturn = "none" /\ saves = 0
  /\ rCount = NoCount /\ errors = <<>>

(***************************************************************************)
(* Library string functions, as Python computes them.                      *)
(***************************************************************************)
\* str.lower on one character of the model's alphabet
LowerChar(c) ==
  CASE c = "A" -> "a"
    [] c = "B" -> "b"
    [] c = "X" -> "x"
    [] OTHER -> c

\* str.lower
Lower(s) == [i \in 1..Len(s) |-> LowerChar(s[i])]

IsSpace(c) == c = " "

RECURSIVE LStrip(_)
LStrip(s) ==
  IF s # <<>> /\ IsSpace(Head(s)) THEN LStrip(Tail(s)) ELSE s

RECURSIVE RStrip(_)
RStrip(s) ==
  IF s # <<>> /\ IsSpace(s[Len(s)]) THEN RStrip(SubSeq(s, 1, Len(s) - 1)) ELSE s

\* str.strip
Strip(s) == RStrip(LStrip(s))

\* str.split(sep) for a one-character sep: always at least one piece,
\* empty pieces are kept
RECURSIVE SplitFrom(_, _, _)
SplitFrom(s, sep, cur) ==
  IF s = <<>> THEN <<cur>>
  ELSE IF Head(s) = sep THEN <<cur>> \o SplitFrom(Tail(s), sep, <<>>)
  ELSE SplitFrom(Tail(s), sep, Append(cur, Head(s)))

Split(s, sep) == SplitFrom(s, sep, <<>>)

\* sep.join(list)
RECURSIVE Join(_, _)
Join(list, sep) ==
  IF list = <<>> THEN <<>>
  ELSE IF Len(list) = 1 THEN list[1]
  ELSE list[1] \o <<sep>> \o Join(Tail(list), sep)

\* the elements of a list
Range(seq) == {seq[i] : i \in 1..Len(seq)}

\* str.rfind of one character: the last index holding c, 0 when none
RFind(s, c) ==
  LET found == {i \in 1..Len(s) : s[i] = c}
  IN IF found = {} THEN 0 ELSE CHOOSE i \in found : \A j \in found : j <= i

\* a splitext that cuts at the first dot instead of the last
SplitExtAtFirstDot(name) ==
  LET dots == {i \in 1..Len(name) : name[i] = "."}
      dot == IF dots = {} THEN 0 ELSE CHOOSE i \in dots : \A j \in dots : i <= j
  IN IF dot > 1
     THEN <<SubSeq(name, 1, dot - 1), SubSeq(name, dot, Len(name))>>
     ELSE <<name, <<>>>>

\* os.path.splitext on a name without directory part: the extension starts
\* at the last dot, unless only dots precede that dot
SplitExt(name) ==
  LET dot == RFind(name, ".")
  IN IF dot > 0 /\ \E i \in 1..(dot - 1) : name[i] # "."
     THEN <<SubSeq(name, 1, dot - 1), SubSeq(name, dot, Len(name))>>
     ELSE <<name, <<>>>>

(***************************************************************************)
(* Title parser.                                                           *)
(***************************************************************************)
\* _titles(name): (x.strip() for x in name.split(_TITLE_SEP))
_titles(name) ==
  LET pieces == Split(name, _TITLE_SEP)
  IN [i \in 1..Len(pieces) |-> Strip(pieces[i])]

\* next(_titles(name)): the first piece, whatever it is
PrimaryTitle(name) == _titles(name)[1]

\* the title set a directory entry contributes to the index: none when the
\* extension is not recognized (the loop body of _find_notes)
TitlesOfEntry(name) ==
  LET se == SplitExt(name)
  IN IF se[2] \notin _MARKDOWN_EXTENSIONS THEN <<>> ELSE _titles(se[1])

\* '<titles joined by the separator><ext>'
MakeFilename(titles, ext) == Join(titles, _TITLE_SEP) \o ext

(***************************************************************************)
(* The title parser on drawn inputs.  Joining up to MaxTitles pieces of up *)
(* to MaxTitleLen characters yields every base name with fewer than        *)
(* MaxTitles separators.                                                   *)
(***************************************************************************)
TitleChars == {"a", " ", "."}

RECURSIVE StrsUpTo(_, _)
StrsUpTo(chars, n) ==
  IF n = 0 THEN {<<>>}
  ELSE LET shorter == StrsUpTo(chars, n - 1)
       IN shorter \cup {Append(s, c) : s \in shorter, c \in chars}

TitlePieces == StrsUpTo(TitleChars, MaxTitleLen)

TitleLists == UNION {[1..n -> TitlePieces] : n \in 1..MaxTitles}

InputExts == _MARKDOWN_EXTENSIONS \cup {ExtTxt, <<>>}

TitlesInit ==
  /\ tpc = "input"
  /\ tTitles \in TitleLists
  /\ tExt \in InputExts
  /\ tName = <<>> /\ tResult = <<>> /\ tPrimary = <<>> /\ tParsed = <<>>

\* _titles(base) and next(_titles(base)) on the base name the pieces join to
Titles ==
  /\ tpc = "input"
  /\ tResult' = _titles(Join(tTitles, _TITLE_SEP))
  /\ tPrimary' = PrimaryTitle(Join(tTitles, _TITLE_SEP))
  /\ tpc' = "titled"
  /\ UNCHANGED <<tTitles, tExt, tName, tParsed, besidesTitles>>

\* filename construction
BuildFilename ==
  /\ tpc = "input"
  /\ tName' = MakeFilename(tTitles, tExt)
  /\ tpc' = "built"
  /\ UNCHANGED <<tTitles, tExt, tResult, tPrimary, tParsed, besidesTitles>>

\* parsing the file name back, as the directory scan does
ParseFilename ==
  /\ tpc = "built"
  /\ tParsed' = TitlesOfEntry(tName)
  /\ tpc' = "parsed"
  /\ UNCHANGED <<tTitles, tExt, tName, tResult, tPrimary, besidesTitles>>

TitlesNext == Titles \/ BuildFilename \/ ParseFilename

(***************************************************************************)
(* The notes directory.  Other actors add, remove and rename entries at    *)
(* any moment; each such change gives the directory a new mtime.           *)
(***************************************************************************)
NotesDir == "notes"

\* the file names the directory draws its entries from
NamePool ==
  { <<"a">> \o ExtMd,
    <<"b", "~", "A">> \o ExtMd,
    <<"B", "~", " ", "a">> \o ExtMarkdown,
    <<"a", "~", "A">> \o ExtMd,
    <<"a">> \o ExtTxt }

DirInit ==
  /\ \E names \in SUBSET NamePool :
       /\ Cardinality(names) <= MaxFiles
       /\ files = [n \in names |-> NoText]
  /\ dirMtime = 0
  /\ dirty = FALSE

\* another actor creates a file
ExtAdd(name) ==
  /\ dirMtime < MaxChanges
  /\ name \notin DOMAIN files
  /\ Cardinality(DOMAIN files) < MaxFiles
  /\ files' = [n \in DOMAIN files \cup {name} |->
                 IF n = name THEN NoText ELSE files[n]]
  /\ dirMtime' = dirMtime + 1
  /\ dirty' = TRUE
  /\ UNCHANGED <<nvars, besidesIndex>>

\* another actor deletes a file
ExtRemove(name) ==
  /\ dirMtime < MaxChanges
  /\ name \in DOMAIN files
  /\ files' = [n \in DOMAIN files \ {name} |-> files[n]]
  /\ dirMtime' = dirMtime + 1
  /\ dirty' = TRUE
  /\ UNCHANGED <<nvars, besidesIndex>>

\* another actor renames a file to a name not in use
ExtRename(old, new) ==
  /\ dirMtime < MaxChanges
  /\ old \in DOMAIN files
  /\ new \notin DOMAIN files
  /\ files' = [n \in (DOMAIN files \ {old}) \cup {new} |->
                 IF n = new THEN files[old] ELSE files[n]]
  /\ dirMtime' = dirMtime + 1
  /\ dirty' = TRUE
  /\ UNCHANGED <<nvars, besidesIndex>>

(***************************************************************************)
(* Directory index: _find_notes and _notes_cache.                          *)
(***************************************************************************)
\* the orders os.listdir may return the entries in
Listings(names) ==
  {l \in [1..Cardinality(names) -> names] :
     \A i, j \in 1..Cardinality(names) : i # j => l[i] # l[j]}

\* an index that keeps only the last pair filed under a key
AddTitleOverwriting(notes, title, name) ==
  [k \in DOMAIN notes \cup {Lower(title)} |->
     IF k = Lower(title) THEN <<<<title, name>>>> ELSE notes[k]]

\* lines 334-338: file the pair under the lowercased title
AddTitle(notes, title, name) ==
  LET lower_title == Lower(title)
  IN IF lower_title \in DOMAIN notes
     THEN [notes EXCEPT ![lower_title] = Append(@, <<title, name>>)]
     ELSE [k \in DOMAIN notes \cup {lower_title} |->
             IF k = lower_title THEN <<<<title, name>>>> ELSE notes[k]]

RECURSIVE AddTitles(_, _, _)
AddTitles(notes, titles, name) ==
  IF titles = <<>> THEN notes
  ELSE AddTitles(AddTitle(notes, Head(titles), name), Tail(titles), name)

\* lines 328-338: the dict built from one listing
RECURSIVE BuildNotes(_, _)
BuildNotes(notes, listing) ==
  IF listing = <<>> THEN notes
  ELSE BuildNotes(AddTitles(notes, TitlesOfEntry(Head(listing)), Head(listing)),
                  Tail(listing))

CachedMtime ==
  IF NotesDir \in DOMAIN _notes_cache THEN _notes_cache[NotesDir].mtime
  ELSE NoMtime

CachedObj ==
  IF NotesDir \in DOMAIN _notes_cache
  THEN [id |-> _notes_cache[NotesDir].id, notes |-> _notes_cache[NotesDir].notes]
  ELSE NoObj

NotesInit == NotesOff

\* lines 324-326, the stored mtime is the directory's: return the cached dict
FindNotesHit ==
  /\ fpc = "idle"
  /\ CachedMtime = dirMtime
  /\ hits < MaxHits
  /\ fResult' = CachedObj
  /\ hits' = hits + 1
  /\ UNCHANGED <<_notes_cache, nextId, fpc, fListing, fNotes>>
  /\ UNCHANGED <<dvars, besidesIndex>>

\* a query that scans whatever the stored mtime is
FindNotesMissAlways ==
  /\ fpc = "idle"
  /\ nextId <= MaxBuilds
  /\ fpc' = "list"
  /\ UNCHANGED <<_notes_cache, nextId, fListing, fNotes, fResult, hits>>
  /\ UNCHANGED <<dvars, besidesIndex>>

\* lines 324-326, no entry or another mtime: go on to scan
FindNotesMiss ==
  /\ fpc = "idle"
  /\ CachedMtime # dirMtime
  /\ nextId <= MaxBuilds
  /\ fpc' = "list"
  /\ UNCHANGED <<_notes_cache, nextId, fListing, fNotes, fResult, hits>>
  /\ UNCHANGED <<dvars, besidesIndex>>

\* lines 328-338: list the directory and build the dict
FindNotesList ==
  /\ fpc = "list"
  /\ \E listing \in Listings(DOMAIN files) :
       /\ fListing' = listing
       /\ fNotes' = BuildNotes(<<>>, listing)
  /\ fpc' = "store"
  /\ dirty' = FALSE
  /\ UNCHANGED <<_notes_cache, nextId, fResult, hits>>
  /\ UNCHANGED <<files, dirMtime, besidesIndex>>

\* the mtime stored at line 340
StoredMtime == dirMtime

\* lines 340-341: stat the directory again, store and return the dict
FindNotesStore ==
  /\ fpc = "store"
  /\ _notes_cache' =
       [d \in DOMAIN _notes_cache \cup {NotesDir} |->
          IF d = NotesDir
          THEN [mtime |-> StoredMtime, id |-> nextId, notes |-> fNotes]
          ELSE _notes_cache[d]]
  /\ fResult' = [id |-> nextId, notes |-> fNotes]
  /\ nextId' = nextId + 1
  /\ fpc' = "idle"
  /\ fListing' = <<>>
  /\ fNotes' = <<>>
  /\ hits' = 0
  /\ UNCHANGED <<dvars, besidesIndex>>

(***************************************************************************)
(* Resolver: NotedownOpenCommand._open_note, and _create_note on a miss.   *)
(***************************************************************************)
\* _full_path(view, filename): os.path.join(_notes_dir(view), filename),
\* which drops the directory when filename is an absolute path
_full_path(filename) ==
  IF filename # <<>> /\ filename[1] = "/" THEN filename
  ELSE <<NotesDir, "/">> \o filename

\* the path names an entry of the notes directory
InNotesDir(path) == path # <<>> /\ path[1] = NotesDir

Basename(path) == SubSeq(path, 3, Len(path))

\* _NOTE_TEMPLATE.format(title, back_title)
NoteText(title, back_title) ==
  <<"#", " ">> \o title \o <<"\n", "\n">>
  \o <<"S", "e", "e", " ", "a", "l", "s", "o", ":">> \o <<"\n", "\n">>
  \o <<"-", " ", "[", "[">> \o back_title \o <<"]", "]", "\n">>

\* the titles a selection or a link under the caret may hold
OpenTitles ==
  {<<"a">>, <<"A">>, <<"b">>, <<"B">>, <<" ", "a">>, <<"a", "b">>, <<"/", "a">>}

OpenInit ==
  /\ opc = "idle"
  /\ Cardinality(DOMAIN files) <= MaxOpenFiles
  /\ viewFile \in {n \in DOMAIN files : SplitExt(n)[2] \in _MARKDOWN_EXTENSIONS}
  /\ markdown_extension \in {<<"m", "d">>, <<"t", "x", "t">>}
  /\ oTitle = <<>> /\ oFilenames = <<>> /\ oPanel = <<>> /\ oOpened = <<>>
  /\ oDialog = NoFile /\ oCreated = NoFile /\ oError = NoFile /\ runs = 0
  /\ oOutside = <<>>

\* NotedownOpenCommand.run up to the call of _find_notes_for_view
OpenRun(title) ==
  /\ opc \in {"idle", "done"}
  /\ fpc = "idle"
  /\ runs < MaxRuns
  /\ runs' = runs + 1
  /\ opc' = "query"
  /\ oTitle' = title
  /\ fResult' = NoObj
  /\ oFilenames' = <<>> /\ oPanel' = <<>> /\ oOpened' = <<>>
  /\ oDialog' = NoFile /\ oCreated' = NoFile /\ oError' = NoFile
  /\ UNCHANGED <<viewFile, markdown_extension, oOutside>>
  /\ UNCHANGED <<_notes_cache, nextId, fpc, fListing, fNotes, hits>>
  /\ UNCHANGED <<dvars, besidesOpen>>

\* _create_note(title, view) with the user's answer and the outcome of
\* open(filename, 'w'); the file name it returns is oCreated
CreateNote(title, ok, ioError) ==
  LET filename == title \o <<".">> \o markdown_extension
      back_title == PrimaryTitle(SplitExt(viewFile)[1])
  IN /\ oDialog' = filename
     /\ IF ~ok
        THEN /\ oCreated' = NoFile /\ oError' = NoFile
             /\ UNCHANGED <<dvars, oOutside>>
        ELSE IF ioError
        THEN /\ oCreated' = NoFile /\ oError' = _full_path(filename)
             /\ UNCHANGED <<dvars, oOutside>>
        ELSE IF ~InNotesDir(_full_path(filename))
        THEN /\ oCreated' = _full_path(filename) /\ oError' = NoFile
             /\ oOutside' = [p \in DOMAIN oOutside \cup {_full_path(filename)} |->
                               IF p = _full_path(filename)
                               THEN NoteText(title, back_title)
                               ELSE oOutside[p]]
             /\ UNCHANGED dvars
        ELSE /\ oCreated' = _full_path(filename) /\ oError' = NoFile
             /\ UNCHANGED oOutside
             /\ files' = [n \in DOMAIN files \cup {filename} |->
                            IF n = filename THEN NoteText(title, back_title)
                            ELSE files[n]]
             /\ dirMtime' = IF filename \in DOMAIN files THEN dirMtime
                             ELSE dirMtime + 1
             /\ dirty' = IF filename \in DOMAIN files THEN dirty ELSE TRUE

\* a lookup under the title as typed
LookupKeyAsTyped(title) == title

\* the key _open_note looks the title up under
LookupKey(title) == Lower(title)

\* _open_note(title) on the index the query returned
OpenNote ==
  /\ opc = "query"
  /\ fpc = "idle"
  /\ fResult # NoObj
  /\ LET notes == fResult.notes
         key == LookupKey(oTitle)
     IN IF key \in DOMAIN notes
        THEN LET filenames == [i \in 1..Len(notes[key]) |->
                                 _full_path(notes[key][i][2])]
             IN /\ oFilenames' = filenames
                /\ IF Len(filenames) > 1
                   THEN /\ oPanel' = filenames
                        /\ oOpened' = <<>>
                        /\ opc' = "panel"
                   ELSE /\ oPanel' = <<>>
                        /\ oOpened' = <<filenames[Len(filenames)]>>
                        /\ opc' = "done"
                /\ UNCHANGED <<oDialog, oCreated, oError, oOutside, dvars>>
        ELSE /\ \E ok, ioError \in BOOLEAN : CreateNote(oTitle, ok, ioError)
             /\ oOpened' = IF oCreated' # NoFile THEN <<oCreated'>> ELSE <<>>
             /\ opc' = "done"
             /\ UNCHANGED <<oFilenames, oPanel>>
  /\ UNCHANGED <<viewFile, markdown_extension, oTitle, runs>>
  /\ UNCHANGED <<nvars, besidesOpen>>

\* on_done(index) of the quick panel; -1 is a cancelled panel
PanelDone(index) ==
  /\ opc = "panel"
  /\ index \in {-1} \cup (0..(Len(oFilenames) - 1))
  /\ oOpened' = IF index # -1 THEN <<oFilenames[index + 1]>> ELSE <<>>
  /\ opc' = "done"
  /\ UNCHANGED <<viewFile, markdown_extension, oTitle, oFilenames, oPanel,
                 oDialog, oCreated, oError, oOutside, runs>>
  /\ UNCHANGED <<dvars, nvars, besidesOpen>>

\* self._notes = _find_notes_for_view(self.view): the one call of the run
InRunQuery == opc = "query" /\ fResult = NoObj

OpenFindNotesHit == InRunQuery /\ FindNotesHit
OpenFindNotesMiss == InRunQuery /\ FindNotesMiss
OpenFindNotesList == InRunQuery /\ FindNotesList
OpenFindNotesStore == InRunQuery /\ FindNotesStore

InitOpen ==
  TitlesOff /\ DirInit /\ NotesInit /\ OpenInit /\ LinksOff /\ RenameOff

NextOpen ==
  \/ \E title \in OpenTitles : OpenRun(title)
  \/ OpenFindNotesHit
  \/ OpenFindNotesMiss
  \/ OpenFindNotesList
  \/ OpenFindNotesStore
  \/ OpenNote
  \/ \E index \in -1..(MaxFiles * MaxTitles) : PanelDone(index)

SpecOpen == InitOpen /\ [][NextOpen]_vars

(***************************************************************************)
(* Link locator: _find_link_regions and _link_regions_cache, with the      *)
(* host's buffers and views.  A buffer has one primary view among its      *)
(* views; the others are clones.                                           *)
(***************************************************************************)
Link(title) == <<"[", "[">> \o title \o <<"]", "]">>

\* the character that delimits inline code in Markdown
Backquote == "BQ"

\* the texts a buffer may hold
DocTexts ==
  { Link(<<"a">>) \o <<" ">> \o Link(<<"b">>),
    <<Backquote>> \o Link(<<"a">>) \o <<Backquote, " ">> \o Link(<<"a">>),
    <<"x">> \o Link(<<"a", "]">>) \o <<"]">> }

MinOf(S) == CHOOSE i \in S : \A j \in S : i <= j

\* view.find_all(r'\[\[.+?\]\]'): the leftmost shortest matches, none
\* overlapping, as regions (begin, end) of 0-based offsets; i is the
\* 1-based index the search goes on from
RECURSIVE FindAllFrom(_, _)
FindAllFrom(text, i) ==
  IF i + 4 > Len(text) THEN <<>>
  ELSE IF text[i] = "[" /\ text[i + 1] = "["
  THEN LET ends == {j \in (i + 3)..(Len(text) - 1) :
                      /\ text[j] = "]" /\ text[j + 1] = "]"
                      /\ \A k \in (i + 2)..(j - 1) : text[k] # "\n"}
       IN IF ends = {} THEN FindAllFrom(text, i + 1)
          ELSE <<<<i - 1, MinOf(ends) + 1>>>> \o FindAllFrom(text, MinOf(ends) + 2)
  ELSE FindAllFrom(text, i + 1)

\* view.match_selector(point, 'markup.raw'): the point lies in inline code
MatchRaw(text, point) ==
  Cardinality({k \in 1..point : text[k] = Backquote}) % 2 = 1

\* an extraction that keeps the matches inside raw regions
FindAllUnfiltered(text) == FindAllFrom(text, 1)

\* lines 384-385
LinkRegions(text) ==
  SelectSeq(FindAllFrom(text, 1), LAMBDA x : ~MatchRaw(text, x[1]))

LinksInit == LinksOff

\* the host opens a file: a new buffer with one view, its primary view
OpenFile(text) ==
  /\ nextView <= MaxViews
  /\ nextBuf <= MaxBuffers
  /\ buffers' = [b \in DOMAIN buffers \cup {nextBuf} |->
                   IF b = nextBuf THEN [text |-> text, change_count |-> 0]
                   ELSE buffers[b]]
  /\ views' = [w \in DOMAIN views \cup {nextView} |->
                 IF w = nextView THEN nextBuf ELSE views[w]]
  /\ primary' = [b \in DOMAIN primary \cup {nextBuf} |->
                   IF b = nextBuf THEN nextView ELSE primary[b]]
  /\ nextBuf' = nextBuf + 1
  /\ nextView' = nextView + 1
  /\ UNCHANGED <<_link_regions_cache, lResult, lView, lScanned>>
  /\ UNCHANGED besidesLinks

\* the host clones a view: another view on the same buffer
CloneView(v) ==
  /\ v \in DOMAIN views
  /\ nextView <= MaxViews
  /\ views' = [u \in DOMAIN views \cup {nextView} |->
                 IF u = nextView THEN views[v] ELSE views[u]]
  /\ nextView' = nextView + 1
  /\ UNCHANGED <<buffers, primary, nextBuf>>
  /\ UNCHANGED <<_link_regions_cache, lResult, lView, lScanned>>
  /\ UNCHANGED besidesLinks

RECURSIVE SumOver(_, _)
SumOver(f, S) ==
  IF S = {} THEN 0
  ELSE LET x == CHOOSE y \in S : TRUE IN f[x] + SumOver(f, S \ {x})

\* the edits the open buffers have had
EditsMade ==
  SumOver([b \in DOMAIN buffers |-> buffers[b].change_count], DOMAIN buffers)

\* the user edits a buffer: new text, next change count
Edit(b, text) ==
  /\ b \in DOMAIN buffers
  /\ EditsMade < MaxEdits
  /\ text # buffers[b].text
  /\ buffers' = [buffers EXCEPT ![b] =
                   [text |-> text, change_count |-> @.change_count + 1]]
  /\ UNCHANGED <<views, primary, nextBuf, nextView>>
  /\ UNCHANGED <<_link_regions_cache, lResult, lView, lScanned>>
  /\ UNCHANGED besidesLinks

\* a comparison that takes any entry of the buffer as current
CachedIfPresent(b) == b \in DOMAIN _link_regions_cache

\* line 381: view.change_count() == last_change_count
CachedIsCurrent(b) ==
  /\ b \in DOMAIN _link_regions_cache
  /\ buffers[b].change_count = _link_regions_cache[b].change_count

\* the identity of a newly created list: that of no object still referenced
\* (by the cache, or by the caller of the previous call)
NewListId ==
  LET live == {_link_regions_cache[c].id : c \in DOMAIN _link_regions_cache}
                \cup {lResult.id}
  IN MinOf((1..(Cardinality(live) + 1)) \ live)

\* _find_link_regions(view), on the cache and on what the call returns
LinkQuery(v) ==
  /\ LET b == views[v]
     IN IF CachedIsCurrent(b)
        THEN /\ lResult' = [id |-> _link_regions_cache[b].id,
                             regions |-> _link_regions_cache[b].regions]
             /\ lScanned' = FALSE
             /\ UNCHANGED _link_regions_cache
        ELSE /\ _link_regions_cache' =
                  [c \in DOMAIN _link_regions_cache \cup {b} |->
                     IF c = b
                     THEN [change_count |-> buffers[b].change_count,
                           id |-> NewListId,
                           regions |-> LinkRegions(buffers[b].text)]
                     ELSE _link_regions_cache[c]]
             /\ lResult' = [id |-> NewListId,
                             regions |-> LinkRegions(buffers[b].text)]
             /\ lScanned' = TRUE
  /\ lView' = v

\* a command calls _find_link_regions(view)
FindLinkRegions(v) ==
  /\ v \in DOMAIN views
  /\ LinkQuery(v)
  /\ UNCHANGED <<buffers, views, primary, nextBuf, nextView>>
  /\ UNCHANGED besidesLinks

\* view.is_primary()
IsPrimary(v) == primary[views[v]] = v

\* on_pre_close(view): the entry of the buffer goes if the view is primary
CacheAfterClose(v) ==
  IF IsPrimary(v)
  THEN [c \in DOMAIN _link_regions_cache \ {views[v]} |-> _link_regions_cache[c]]
  ELSE _link_regions_cache

\* the views on the buffer of v besides v
OtherViews(v) == {w \in DOMAIN views \ {v} : views[w] = views[v]}

ViewsAfterClose(v) == [w \in DOMAIN views \ {v} |-> views[w]]

\* a buffer without views is gone
BuffersAfterClose(v) ==
  IF OtherViews(v) = {}
  THEN [c \in DOMAIN buffers \ {views[v]} |-> buffers[c]]
  ELSE buffers

\* a buffer that loses its primary view gets one of the views left
PrimariesAfterClose(v) ==
  IF OtherViews(v) = {}
  THEN {[c \in DOMAIN primary \ {views[v]} |-> primary[c]]}
  ELSE IF IsPrimary(v)
  THEN {[primary EXCEPT ![views[v]] = w] : w \in OtherViews(v)}
  ELSE {primary}

\* the host closes a view: on_pre_close(view), then the view is gone
CloseView(v) ==
  /\ v \in DOMAIN views
  /\ _link_regions_cache' = CacheAfterClose(v)
  /\ views' = ViewsAfterClose(v)
  /\ buffers' = BuffersAfterClose(v)
  /\ primary' \in PrimariesAfterClose(v)
  /\ UNCHANGED <<nextBuf, nextView, lResult, lView, lScanned>>
  /\ UNCHANGED besidesLinks

ViewIds == 1..MaxViews

InitLinks ==
  TitlesOff /\ DirOff /\ NotesOff /\ OpenOff /\ LinksInit /\ RenameOff

NextLinks ==
  \/ \E text \in DocTexts : OpenFile(text)
  \/ \E v \in ViewIds : CloneView(v)
  \/ \E b \in 1..MaxBuffers, text \in DocTexts : Edit(b, text)
  \/ \E v \in ViewIds : FindLinkRegions(v)
  \/ \E v \in ViewIds : CloseView(v)

SpecLinks == InitLinks /\ [][NextLinks]_vars

(***************************************************************************)
(* Backlink rewriter: the pattern of _update_backlinks as the re module    *)
(* reads it.  The old titles go into the pattern as they are, so '.' and   *)
(* '+' in a title are operators of the pattern; the other operators of re  *)
(* are outside the alphabet of the titles drawn here.                      *)
(***************************************************************************)
\* the content of a file whose bytes do not decode under the encoding
Undecodable == <<"BAD_BYTES">>

\* the content of a file that open() refuses with an OSError
Unreadable == <<"NO_ACCESS">>

\* re.compile raises: '+' with nothing to repeat, or after a repeat
CompileFails(alt) ==
  \E i \in 1..Len(alt) : alt[i] = "+" /\ (i = 1 \/ alt[i - 1] = "+")

\* one alternative as a list of atoms: a character, repeated or not
RECURSIVE AtomsFrom(_, _)
AtomsFrom(alt, i) ==
  IF i > Len(alt) THEN <<>>
  ELSE LET plus == i < Len(alt) /\ alt[i + 1] = "+"
       IN <<[ch |-> alt[i], plus |-> plus]>>
            \o AtomsFrom(alt, IF plus THEN i + 2 ELSE i + 1)

\* the atom matches the character at s[j], under re.IGNORECASE
AtomFits(a, s, j) ==
  /\ j <= Len(s)
  /\ IF a.ch = "." THEN s[j] # "\n" ELSE LowerChar(a.ch) = LowerChar(s[j])

\* the backtracking match of atoms[k..] at s[i..]: the index after the
\* match, 0 when there is none; a repeat takes the longest run first
RECURSIVE MatchAtoms(_, _, _, _)
RECURSIVE TryRepeat(_, _, _, _, _)
MatchAtoms(atoms, k, s, i) ==
  IF k > Len(atoms) THEN i
  ELSE IF ~atoms[k].plus
  THEN IF AtomFits(atoms[k], s, i) THEN MatchAtoms(atoms, k + 1, s, i + 1) ELSE 0
  ELSE LET run == Cardinality({n \in 1..(Len(s) - i + 1) :
                     \A j \in i..(i + n - 1) : AtomFits(atoms[k], s, j)})
       IN TryRepeat(atoms, k, s, i, run)

TryRepeat(atoms, k, s, i, n) ==
  IF n < 1 THEN 0
  ELSE LET end == MatchAtoms(atoms, k + 1, s, i + n)
       IN IF end # 0 THEN end ELSE TryRepeat(atoms, k, s, i, n - 1)

\* r'\[\[({})\]\]'.format(alt) for one alternative
LinkPattern(alt) == AtomsFrom(Link(alt), 1)

\* the match of r'\[\[(alt1|alt2|...)\]\]' at s[i..]: the first alternative,
\* in the order of the pattern, that leads to a match
RECURSIVE MatchAt(_, _, _)
MatchAt(alts, s, i) ==
  IF alts = <<>> THEN 0
  ELSE LET end == MatchAtoms(LinkPattern(Head(alts)), 1, s, i)
       IN IF end # 0 THEN end ELSE MatchAt(Tail(alts), s, i)

\* pattern.subn(repl, text) from index i on: (new text, count)
RECURSIVE Subn(_, _, _, _)
Subn(alts, repl, text, i) ==
  IF i > Len(text) THEN [text |-> <<>>, count |-> 0]
  ELSE LET end == MatchAt(alts, text, i)
       IN IF end # 0
          THEN LET rest == Subn(alts, repl, text, end)
               IN [text |-> repl \o rest.text, count |-> rest.count + 1]
          ELSE LET rest == Subn(alts, repl, text, i + 1)
               IN [text |-> <<text[i]>> \o rest.text, count |-> rest.count]

(***************************************************************************)
(* Rename to match the heading: on_post_save_async with                    *)
(* _reflect_title_in_filename and _update_backlinks, for one note open in  *)
(* one Markdown view (_viewing_a_note holds).  The host queues the         *)
(* handler when the view has been saved.                                   *)
(***************************************************************************)
FirstLine(text) ==
  LET ends == {i \in 1..Len(text) : text[i] = "\n"}
  IN IF ends = {} THEN text ELSE SubSeq(text, 1, MinOf(ends) - 1)

\* view.match_selector(0, 'markup.heading.1.markdown')
IsHeading1(text) == Len(text) >= 2 /\ text[1] = "#" /\ text[2] = " "

\* _note_title(view); None is NoText, as falsy as the empty title
_note_title(text) ==
  IF ~IsHeading1(text) THEN NoText
  ELSE Strip(SubSeq(FirstLine(text), 3, Len(FirstLine(text))))

Heading(title) == <<"#", " ">> \o title

\* the notes the view may be on
RenameNotes ==
  { <<"a">> \o ExtMd,
    <<"a", "~", "b">> \o ExtMd,
    <<"a", "+">> \o ExtMd,
    <<"+">> \o ExtMd }

\* what the user may save in the view
SavedTexts ==
  { Heading(<<"x">>), Heading(<<"a", "~", "x">>), Heading(<<"A">>),
    Heading(<<"a">>), <<"x">>,
    Heading(<<>>) \o <<"\n">> \o Link(<<"A">>) \o <<" ">> \o Link(<<"q">>) }

\* another note of the directory, and the texts it may hold
OtherNote == <<"n">> \o ExtMd

BacklinkTexts ==
  { Link(<<"a">>) \o <<" ">> \o Link(<<"B">>),
    Link(<<"a", "+">>) \o <<" ">> \o Link(<<"a", "a">>),
    Link(<<"n">>) }

\* a further file the directory may hold
ExtraFiles ==
  { [name |-> <<"x">> \o ExtMd, text |-> Link(<<"a">>)],
    [name |-> <<"u">> \o ExtMd, text |-> Undecodable],
    [name |-> <<"p">> \o ExtMd, text |-> Unreadable] }

RenameInit ==
  \E note \in RenameNotes, text \in BacklinkTexts,
     extra \in {{}} \cup {{e} : e \in ExtraFiles} :
    /\ files = [n \in {note, OtherNote} \cup {e.name : e \in extra} |->
                  IF n = note THEN Heading(SplitExt(note)[1])
                  ELSE IF n = OtherNote THEN text
                  ELSE (CHOOSE e \in extra : e.name = n).text]
    /\ dirMtime = 0 /\ dirty = FALSE
    /\ buffers = <<[text |-> Heading(SplitExt(note)[1]), change_count |-> 0]>>
    /\ views = <<1>> /\ primary = <<1>> /\ nextBuf = 2 /\ nextView = 2
    /\ _link_regions_cache = <<>> /\ lResult = NoRegions
    /\ lView = 0 /\ lScanned = FALSE
    /\ rpc = "idle" /\ rFile = note /\ rView = 1 /\ rWas = NoFile
    /\ rBefore = <<>> /\ rLog = <<>> /\ rReturn = "none" /\ saves = 0
    /\ rCount = NoCount /\ errors = <<>>

\* the user edits the view's buffer to text and saves it
SaveView(text) ==
  /\ rpc = "idle"
  /\ saves < MaxSaves
  /\ buffers' = [buffers EXCEPT ![views[rView]] =
                   [text |-> text,
                    change_count |-> IF text = @.text THEN @.change_count
                                     ELSE @.change_count + 1]]
  /\ files' = [files EXCEPT ![rFile] = text]
  /\ rpc' = "saved"
  /\ UNCHANGED <<dirMtime, dirty, nvars>>
  /\ UNCHANGED <<views, primary, nextBuf, nextView, _link_regions_cache,
                 lResult, lView, lScanned>>
  /\ UNCHANGED <<rFile, rView, rWas, rBefore, rLog, rReturn, rCount, errors,
                 saves>>
  /\ UNCHANGED <<tvars, ovars>>

\* one whole call of _find_notes(directory) on a directory of the given
\* mtime and entries: the cache, the returned object and the counters after
FindNotesOutcomes(mtime, names) ==
  IF CachedMtime = mtime
  THEN {[cache |-> _notes_cache, result |-> CachedObj, nextId |-> nextId,
         hits |-> IF hits < MaxHits THEN hits + 1 ELSE hits, listed |-> FALSE]}
  ELSE {[cache |-> [d \in DOMAIN _notes_cache \cup {NotesDir} |->
                      IF d = NotesDir
                      THEN [mtime |-> mtime, id |-> nextId,
                            notes |-> BuildNotes(<<>>, listing)]
                      ELSE _notes_cache[d]],
         result |-> [id |-> nextId, notes |-> BuildNotes(<<>>, listing)],
         nextId |-> nextId + 1, hits |-> 0, listed |-> TRUE] :
          listing \in Listings(names)}

\* the effect of that call on the state of the index
NotesBecome(q) ==
  /\ _notes_cache' = q.cache
  /\ fResult' = q.result
  /\ nextId' = q.nextId
  /\ hits' = q.hits
  /\ UNCHANGED <<fpc, fListing, fNotes>>

Event(op, file) == [op |-> op, file |-> file]

\* lines 283-285: the file names the index mentions
Filenames(notes) ==
  UNION {{notes[k][i][2] : i \in 1..Len(notes[k])} : k \in DOMAIN notes}

\* line 287: open() raises an OSError for the file
OpenRaises(fs, f) == f \notin DOMAIN fs \/ fs[f] = Unreadable

\* lines 287-289: open() or read() raises; neither exception is caught
ReadRaises(fs, f) == OpenRaises(fs, f) \/ fs[f] = Undecodable

RaiseEvent(fs, f) == Event(IF OpenRaises(fs, f) THEN "oserror" ELSE "raise", f)

\* a rewrite loop that writes every file it has read
RECURSIVE RewriteFilesAlways(_, _, _, _, _)
RewriteFilesAlways(fs, order, alts, repl, log) ==
  IF order = <<>> THEN [files |-> fs, log |-> log, raised |-> FALSE]
  ELSE LET f == Head(order)
       IN IF ReadRaises(fs, f)
          THEN [files |-> fs, log |-> Append(log, RaiseEvent(fs, f)),
                raised |-> TRUE]
          ELSE RewriteFilesAlways(
                 [fs EXCEPT ![f] = Subn(alts, repl, fs[f], 1).text],
                 Tail(order), alts, repl,
                 log \o <<Event("read", f), Event("write", f)>>)

\* lines 286-298 over the files in the order the set yields them: the
\* directory afterwards, what was done, and whether an exception ended the
\* loop (open or read raises; only UnicodeEncodeError is caught)
RECURSIVE RewriteFiles(_, _, _, _, _)
RewriteFiles(fs, order, alts, repl, log) ==
  IF order = <<>> THEN [files |-> fs, log |-> log, raised |-> FALSE]
  ELSE LET f == Head(order)
       IN IF ReadRaises(fs, f)
          THEN [files |-> fs, log |-> Append(log, RaiseEvent(fs, f)),
                raised |-> TRUE]
          ELSE LET r == Subn(alts, repl, fs[f], 1)
               IN IF r.count > 0
                  THEN RewriteFiles([fs EXCEPT ![f] = r.text], Tail(order),
                                    alts, repl,
                                    log \o <<Event("read", f), Event("write", f)>>)
                  ELSE RewriteFiles(fs, Tail(order), alts, repl,
                                    Append(log, Event("read", f)))

InvalidTitle == "Invalid note title (must start with #)"
MissingNote == "Missing note file"

\* _check_note_title: (description, region, edit_region) with view.line(0)
\* and Region(0, 0), when _note_title(view) is None or empty
TitleErrors(text) ==
  IF _note_title(text) = NoText
  THEN <<[description |-> InvalidTitle,
          region |-> <<0, Len(FirstLine(text))>>,
          edit_region |-> <<0, 0>>]>>
  ELSE <<>>

\* a check of the links that compares the text as typed with the keys
RECURSIVE BrokenLinksAsTyped(_, _, _)
BrokenLinksAsTyped(text, regions, notes) ==
  IF regions = <<>> THEN <<>>
  ELSE LET region == Head(regions)
           text_region == <<region[1] + 2, region[2] - 2>>
       IN (IF SubSeq(text, text_region[1] + 1, text_region[2])
                \notin DOMAIN notes
           THEN <<[description |-> MissingNote, region |-> region,
                   edit_region |-> text_region]>>
           ELSE <<>>)
          \o BrokenLinksAsTyped(text, Tail(regions), notes)

\* _find_broken_links over the regions _find_link_regions returned
RECURSIVE BrokenLinks(_, _, _)
BrokenLinks(text, regions, notes) ==
  IF regions = <<>> THEN <<>>
  ELSE LET region == Head(regions)
           text_region == <<region[1] + 2, region[2] - 2>>
       IN (IF Lower(SubSeq(text, text_region[1] + 1, text_region[2]))
                \notin DOMAIN notes
           THEN <<[description |-> MissingNote, region |-> region,
                   edit_region |-> text_region]>>
           ELSE <<>>)
          \o BrokenLinks(text, Tail(regions), notes)

\* line 204: NotedownLintCommand.run on the view, which queries both caches
\* and collects the errors
LintRuns(log) ==
  /\ \E q \in FindNotesOutcomes(dirMtime, DOMAIN files) :
       /\ NotesBecome(q)
       /\ dirty' = (dirty /\ ~q.listed)
  /\ LinkQuery(rView)
  /\ errors' = TitleErrors(buffers[views[rView]].text)
                 \o BrokenLinks(buffers[views[rView]].text, lResult'.regions,
                                fResult'.notes)
  /\ rLog' = Append(log, Event("lint", rFile))
  /\ rReturn' = "false"
  /\ rpc' = "idle"
  /\ UNCHANGED <<files, dirMtime, buffers, views, primary, nextBuf, nextView,
                 rFile, rView>>

\* a failed rename that leaves the view open, so that line 204 lints it
RenameFailsKeepingView(new_basename) ==
  LintRuns(<<Event("dialog", new_basename), Event("rename", new_basename),
             Event("error", rFile)>>)

\* lines 248-257: the view is closed and os.rename raises OSError; the lint
\* command of line 204 is not enabled on the closed view
RenameFails(new_basename) ==
  /\ _link_regions_cache' = CacheAfterClose(rView)
  /\ views' = ViewsAfterClose(rView)
  /\ buffers' = BuffersAfterClose(rView)
  /\ primary' \in PrimariesAfterClose(rView)
  /\ rLog' = <<Event("dialog", new_basename), Event("close", rFile),
               Event("rename", new_basename), Event("error", rFile)>>
  /\ rReturn' = "false"
  /\ rpc' = "closed" /\ rFile' = NoFile /\ rView' = 0
  /\ UNCHANGED errors
  /\ UNCHANGED <<dvars, nvars, nextBuf, nextView, lResult, lView, lScanned>>

\* lines 248-263 with os.rename succeeding (an entry of the new name is
\* replaced), the file reopened, and _update_backlinks
RenameSucceeds(old_name, new_name, new_basename) ==
  LET renamed == [n \in (DOMAIN files \ {rFile}) \cup {new_basename} |->
                    IF n = new_basename THEN files[rFile] ELSE files[n]]
      removed == Range(_titles(old_name)) \ Range(_titles(new_name))
      repl == Link(PrimaryTitle(new_name))
      log == <<Event("dialog", new_basename), Event("close", rFile),
               Event("rename", new_basename), Event("open", new_basename)>>
  IN /\ _link_regions_cache' = CacheAfterClose(rView)
     /\ views' = [w \in DOMAIN ViewsAfterClose(rView) \cup {nextView} |->
                    IF w = nextView THEN nextBuf ELSE views[w]]
     /\ buffers' = [b \in DOMAIN BuffersAfterClose(rView) \cup {nextBuf} |->
                      IF b = nextBuf
                      THEN [text |-> files[rFile], change_count |-> 0]
                      ELSE buffers[b]]
     /\ \E p \in PrimariesAfterClose(rView) :
          primary' = [b \in DOMAIN p \cup {nextBuf} |->
                        IF b = nextBuf THEN nextView ELSE p[b]]
     /\ nextBuf' = nextBuf + 1
     /\ nextView' = nextView + 1
     /\ UNCHANGED <<lResult, lView, lScanned>>
     /\ rFile' = new_basename /\ rView' = nextView /\ rpc' = "idle"
     /\ UNCHANGED errors
     /\ dirMtime' = dirMtime + 1
     /\ IF removed = {}
        THEN /\ files' = renamed /\ dirty' = TRUE
             /\ UNCHANGED nvars
             /\ rLog' = log /\ rReturn' = "true"
        ELSE \E joined \in Listings(removed) :
               LET alts == Split(Join(joined, "|"), "|")
               IN IF \E i \in 1..Len(alts) : CompileFails(alts[i])
                  THEN /\ files' = renamed /\ dirty' = TRUE
                       /\ UNCHANGED nvars
                       /\ rLog' = Append(log, Event("raise", NoFile))
                       /\ rReturn' = "raised"
                  ELSE \E q \in FindNotesOutcomes(dirMtime + 1, DOMAIN renamed) :
                         \E order \in Listings(Filenames(q.result.notes)) :
                           LET r == RewriteFiles(renamed, order, alts, repl, log)
                           IN /\ NotesBecome(q)
                              /\ dirty' = ~q.listed
                              /\ files' = r.files
                              /\ rLog' = r.log
                              /\ rReturn' = IF r.raised THEN "raised" ELSE "true"

\* lines 275 and 298: _update_backlinks ends with a bare return or by
\* reaching its end, so a call that returns, returns None
UpdateBacklinksReturns == NoCount

\* on_post_save_async(view)
PostSave ==
  /\ rpc = "saved"
  /\ fpc = "idle"
  /\ rWas' = rFile
  /\ rBefore' = files
  /\ saves' = saves + 1
  /\ rCount' = UpdateBacklinksReturns
  /\ UNCHANGED <<tvars, ovars>>
  /\ LET new_name == _note_title(buffers[views[rView]].text)
         old_name == SplitExt(rFile)[1]
         new_basename == new_name \o SplitExt(rFile)[2]
     IN IF new_name = NoText \/ new_name = old_name
        THEN LintRuns(<<>>)
        ELSE \/ LintRuns(<<Event("dialog", new_basename)>>)
             \/ RenameFails(new_basename)
             \/ RenameSucceeds(old_name, new_name, new_basename)

InitRename == TitlesOff /\ NotesInit /\ OpenOff /\ RenameInit

NextRename ==
  \/ \E text \in SavedTexts : SaveView(text)
  \/ PostSave
  \/ FindNotesHit
  \/ FindNotesMiss
  \/ FindNotesList
  \/ FindNotesStore

SpecRename == InitRename /\ [][NextRename]_vars

(***************************************************************************)
(* Claims about renaming, checked under SpecRename.                        *)
(***************************************************************************)
\* the index a scan of the given entries builds; its keys, and the files
\* under a key, do not depend on the order of listing
IndexOf(names) == BuildNotes(<<>>, CHOOSE listing \in Listings(names) : TRUE)

\* the files the index resolves a title to
FilesUnder(notes, title) ==
  IF Lower(title) \in DOMAIN notes
  THEN {notes[Lower(title)][i][2] : i \in 1..Len(notes[Lower(title)])}
  ELSE {}

\* the titles of the links of a text
LinkTitles(text) ==
  {SubSeq(text, r[1] + 3, r[2] - 2) : r \in Range(LinkRegions(text))}

\* the note files of the directory besides the one the view is on
OtherNotes ==
  {f \in DOMAIN files \ {rFile} :
     TitlesOfEntry(f) # <<>> /\ files[f] \notin {Undecodable, Unreadable}}

\* the last handler renamed the file and _update_backlinks returned
RenamedAndRewritten == rpc = "idle" /\ rReturn = "true"

\* C2: after a rename followed by the backlink rewrite, no link of another
\* note file that resolved to the renamed note before the rename has a title
\* that is missing from the index of the directory after the rename.
C2_LinksToRenamedStayValid ==
  RenamedAndRewritten =>
    \A f \in OtherNotes : \A title \in LinkTitles(files[f]) :
      rWas \in FilesUnder(IndexOf(DOMAIN rBefore), title)
        => FilesUnder(IndexOf(DOMAIN files), title) # {}

\* titleset(old) - titleset(new) of the last rename
Removed ==
  Range(_titles(SplitExt(rWas)[1])) \ Range(_titles(SplitExt(rFile)[1]))

\* the primary title of the new filename, as a link
NewPrimaryLink == Link(PrimaryTitle(SplitExt(rFile)[1]))

\* the text a file of the directory had when the last handler began
TextBefore(f) == IF f = rFile THEN rBefore[rWas] ELSE rBefore[f]

\* text[i..] begins with the link [[title]], letter case aside
IsLinkAt(text, i, title) ==
  /\ i + Len(title) + 3 <= Len(text)
  /\ Lower(SubSeq(text, i, i + Len(title) + 3)) = Lower(Link(title))

\* the text with every link whose content is one of the titles, letter case
\* aside, replaced by repl, and nothing else changed
RECURSIVE WithLinksReplaced(_, _, _, _)
WithLinksReplaced(titles, repl, text, i) ==
  IF i > Len(text) THEN <<>>
  ELSE LET hit == {t \in titles : IsLinkAt(text, i, t)}
       IN IF hit # {}
          THEN LET t == CHOOSE u \in hit : \A w \in hit : Len(u) <= Len(w)
               IN repl \o WithLinksReplaced(titles, repl, text, i + Len(t) + 4)
          ELSE <<text[i]>> \o WithLinksReplaced(titles, repl, text, i + 1)

\* C12: after a rename with removed titles and the backlink rewrite, every
\* note file holds its original text with exactly the links to a removed
\* title, letter case aside, replaced by the link to the new primary title.
C12_RewriteReplacesRemovedLinks ==
  (RenamedAndRewritten /\ Removed # {}) =>
    \A f \in DOMAIN files :
      TitlesOfEntry(f) # <<>> =>
        files[f] = WithLinksReplaced(Removed, NewPrimaryLink, TextBefore(f), 1)

\* C13: the rewrite substitutes a link only if its content equals a removed
\* title, letter case aside: a link of a note file whose content equals no
\* removed title is still a link of that file after the rewrite.
C13_OnlyEqualTitlesSubstituted ==
  (RenamedAndRewritten /\ Removed # {}) =>
    \A f \in DOMAIN files :
      TitlesOfEntry(f) # <<>> =>
        \A title \in LinkTitles(TextBefore(f)) :
          (\A t \in Removed : Lower(title) # Lower(t))
            => title \in LinkTitles(files[f])

\* the last handler renamed the file, whatever became of the rewrite
Renamed == rpc = "idle" /\ rReturn \in {"true", "raised"}

\* the files the last handler did op on
FilesLogged(op) == {rLog[k].file : k \in {j \in 1..Len(rLog) : rLog[j].op = op}}

\* the pattern of the last rename matches somewhere in the text, which is
\* when subn counts a substitution
PatternMatches(text) ==
  LET joined == CHOOSE l \in Listings(Removed) : TRUE
      alts == Split(Join(joined, "|"), "|")
  IN \E i \in 1..Len(text) : MatchAt(alts, text, i) # 0

\* C14: the rewrite writes a file only if the pattern matched in it, and a
\* file it did not write keeps its text; with no removed title no file is
\* read or written.
C14_WritesOnlySubstitutedFiles ==
  Renamed =>
    /\ \A f \in FilesLogged("write") :
         f \in FilesLogged("read") /\ PatternMatches(TextBefore(f))
    /\ \A f \in DOMAIN files \ FilesLogged("write") : files[f] = TextBefore(f)
    /\ Removed = {} =>
         FilesLogged("read") = {} /\ FilesLogged("write") = {}

\* a rewrite wrote one file and read another without writing it
C14_Witness ==
  /\ RenamedAndRewritten
  /\ FilesLogged("write") # {}
  /\ FilesLogged("read") \ FilesLogged("write") # {}
  /\ \E f \in FilesLogged("read") \ FilesLogged("write") :
       LinkTitles(files[f]) # {}

\* C15: a backlink rewrite that returns, returns the number of files it
\* wrote (0 when it wrote none).
C15_ReturnsNumberOfFilesWritten ==
  RenamedAndRewritten => rCount = Cardinality(FilesLogged("write"))

\* re.compile accepts the pattern of the last rename
PatternCompiles == \A t \in Removed : ~CompileFails(t)

\* C16: a rewrite that meets a file that does not decode skips it and goes
\* on: the operation ends without an exception and every other note file in
\* which the pattern matches has been written.
C16_UndecodableFileSkipped ==
  (/\ Renamed /\ Removed # {} /\ PatternCompiles
   /\ \E f \in DOMAIN files : files[f] = Undecodable) =>
    /\ rReturn = "true"
    /\ \A f \in DOMAIN files :
         (/\ TitlesOfEntry(f) # <<>>
          /\ TextBefore(f) # Undecodable
          /\ PatternMatches(TextBefore(f))) => f \in FilesLogged("write")

\* the positions of the last handler's log at which op was done
LoggedAt(op) == {k \in 1..Len(rLog) : rLog[k].op = op}

\* C17: the handler closes the view before it attempts the rename, reopens
\* the file (at its new path) and reads or writes backlink files only after
\* a rename that succeeded; after a failed rename the error is reported,
\* nothing is reopened, read or written, no file has changed and the view
\* stays closed.
C17_CloseRenameReopenOrder ==
  /\ \A k \in LoggedAt("rename") : \E j \in LoggedAt("close") : j < k
  /\ \A k \in LoggedAt("open") \cup LoggedAt("read") \cup LoggedAt("write") :
       /\ \E j \in LoggedAt("rename") : j < k
       /\ LoggedAt("error") = {}
  /\ \A k \in LoggedAt("open") :
       /\ rLog[k].file = rLog[CHOOSE j \in LoggedAt("rename") : TRUE].file
       /\ \A j \in LoggedAt("read") \cup LoggedAt("write") : k < j
  /\ (rpc \in {"idle", "closed"} /\ LoggedAt("rename") # {}) =>
       IF LoggedAt("error") # {}
       THEN /\ rpc = "closed" /\ rView \notin DOMAIN views
            /\ files = rBefore /\ rWas \in DOMAIN files
            /\ LoggedAt("open") \cup LoggedAt("read") \cup LoggedAt("write") = {}
       ELSE /\ rpc = "idle" /\ rView \in DOMAIN views
            /\ rFile \in DOMAIN files /\ rWas \notin DOMAIN files
            /\ LoggedAt("open") # {}

\* the rename failed: the view is closed and the error reported
C17_Witness ==
  /\ rpc = "closed"
  /\ LoggedAt("error") # {}
  /\ LoggedAt("close") # {}
  /\ \E f \in DOMAIN files : f # rWas /\ LinkTitles(files[f]) # {}

\* a step in which the handler asked for the rename and the user cancelled:
\* the dialog was shown and the view was not closed
IsCancelledRenameStep ==
  /\ rpc = "saved" /\ rpc' # "saved"
  /\ \E k \in 1..Len(rLog') : rLog'[k].op = "dialog"
  /\ \A k \in 1..Len(rLog') : rLog'[k].op # "close"

\* C18: a save handler in which the rename confirmation is cancelled leaves
\* the file under its old name, the view open, every file's text and both
\* caches as they were when the handler began.
C18_CancelLeavesAllUntouched ==
  [][IsCancelledRenameStep =>
       /\ rFile' = rFile /\ files' = files
       /\ views' = views /\ rView' = rView
       /\ _notes_cache' = _notes_cache
       /\ _link_regions_cache' = _link_regions_cache]_vars

\* a step of the handler in which the filesystem refused something:
\* os.rename raised, or open() raised for a backlink file
IsFilesystemErrorStep ==
  /\ rpc = "saved" /\ rpc' # "saved"
  /\ \E k \in 1..Len(rLog') : rLog'[k].op \in {"error", "oserror"}

\* C19: a handler that meets a filesystem error leaves the name and the
\* text of every file and both caches as they were when it began.
C19_FilesystemErrorLeavesAllAsBefore ==
  [][IsFilesystemErrorStep =>
       /\ files' = files
       /\ _notes_cache' = _notes_cache
       /\ _link_regions_cache' = _link_regions_cache]_vars

\* _update_backlinks called once more with the names of the last rename, on
\* the directory as the first call left it: one outcome for every order in
\* which the pattern and the set of file names can come out
SecondRewrites ==
  {RewriteFiles(files, order, Split(Join(joined, "|"), "|"), NewPrimaryLink,
                <<>>) :
     joined \in Listings(Removed),
     order \in Listings(Filenames(IndexOf(DOMAIN files)))}

\* C20: running the backlink rewrite again for the same rename, right after
\* it completed, writes no file and changes no file's text.
C20_SecondRewriteIsNoOp ==
  (RenamedAndRewritten /\ Removed # {}) =>
    \A r \in SecondRewrites :
      /\ r.files = files
      /\ \A k \in 1..Len(r.log) : r.log[k].op # "write"

\* a handler step that ran the lint command on the view
IsLintStep ==
  /\ rpc = "saved" /\ rpc' = "idle"
  /\ rLog' # <<>> /\ rLog'[Len(rLog')].op = "lint"

\* the text of the view the handler is on
ViewText == buffers[views[rView]].text

\* the link spans of the text whose title text, lowercased, is no key of
\* the index
SpansMissingFrom(text, notes) ==
  {r \in Range(LinkRegions(text)) :
     Lower(SubSeq(text, r[1] + 3, r[2] - 2)) \notin DOMAIN notes}

\* the errors are one 'missing note file' diagnostic for each of the spans,
\* edited at the title text, besides 'invalid title' diagnostics at line 1
MissingNoteErrorsAre(errs, spans, text) ==
  /\ \A k \in 1..Len(errs) :
       \/ /\ errs[k].description = InvalidTitle
          /\ errs[k].region = <<0, Len(FirstLine(text))>>
       \/ /\ errs[k].description = MissingNote
          /\ errs[k].region \in spans
          /\ errs[k].edit_region = <<errs[k].region[1] + 2, errs[k].region[2] - 2>>
  /\ \A r \in spans :
       Cardinality({k \in 1..Len(errs) : errs[k].description = MissingNote
                                           /\ errs[k].region = r}) = 1

HasTitleError(errs) ==
  \E k \in 1..Len(errs) : errs[k].description = InvalidTitle

\* C22 as stated: lint reports an invalid title exactly when the first line
\* is not a first-level heading, reports a missing note file for exactly the
\* link spans whose lowercased title text is no key of the index, and
\* changes no file.
C22_LintDiagnostics ==
  [][IsLintStep =>
       /\ HasTitleError(errors') <=> ~IsHeading1(ViewText)
       /\ MissingNoteErrorsAre(errors', SpansMissingFrom(ViewText, fResult'.notes),
                               ViewText)
       /\ files' = files /\ dirMtime' = dirMtime]_vars

\* C22, amended: lint reports an invalid title exactly when the first line
\* is not a first-level heading or its title, trimmed, is empty; it reports
\* a missing note file for exactly the link spans whose lowercased title
\* text is no key of the index, edited at the title text; it changes no file.
C22_LintDiagnosticsOrEmptyTitle ==
  [][IsLintStep =>
       /\ HasTitleError(errors') <=>
            \/ ~IsHeading1(ViewText)
            \/ Strip(SubSeq(FirstLine(ViewText), 3, Len(FirstLine(ViewText))))
                 = <<>>
       /\ Cardinality({k \in 1..Len(errors') :
                         errors'[k].description = InvalidTitle}) <= 1
       /\ MissingNoteErrorsAre(errors', SpansMissingFrom(ViewText, fResult'.notes),
                               ViewText)
       /\ files' = files /\ dirMtime' = dirMtime]_vars

\* a lint has reported an invalid title and a missing note file, and has
\* left alone a link whose title differs from an index key in letter case
C22_Witness ==
  /\ rpc = "idle" /\ rLog # <<>> /\ rLog[Len(rLog)].op = "lint"
  /\ HasTitleError(errors)
  /\ \E k \in 1..Len(errors) : errors[k].description = MissingNote
  /\ \E r \in Range(LinkRegions(ViewText)) :
       /\ SubSeq(ViewText, r[1] + 3, r[2] - 2) \notin DOMAIN fResult.notes
       /\ \A k \in 1..Len(errors) : errors[k].region # r

\* a handler step in which os.rename succeeded
IsRenameStep == rpc = "saved" /\ rReturn' \in {"true", "raised"}

\* the text, and the text with the links substituted that the rewrite of a
\* rename from old to new substitutes
Rewritings(text, old, new) ==
  LET removed == Range(_titles(SplitExt(old)[1]))
                   \ Range(_titles(SplitExt(new)[1]))
  IN IF removed = {} \/ (\E t \in removed : CompileFails(t))
        \/ text \in {Undecodable, Unreadable}
     THEN {text}
     ELSE {text} \cup
          {Subn(Split(Join(joined, "|"), "|"),
                Link(PrimaryTitle(SplitExt(new)[1])), text, 1).text :
             joined \in Listings(removed)}

\* C23: a rename to match the heading keeps every other file of the
\* directory, a file that already has the new name included, with its text
\* apart from the links the backlink rewrite substitutes, and changes of the
\* renamed file only its name and such links.
C23_RenameKeepsOtherNotes ==
  [][IsRenameStep =>
       /\ \A f \in DOMAIN files \ {rFile} :
            /\ f \in DOMAIN files'
            /\ files'[f] \in Rewritings(files[f], rFile, rFile')
       /\ rFile' \in DOMAIN files'
       /\ files'[rFile'] \in Rewritings(files[rFile], rFile, rFile')]_vars

(***************************************************************************)
(* Claims about the link cache, checked under SpecLinks.                   *)
(***************************************************************************)
\* a step that is a call of _find_link_regions (a call that returns the
\* object, view and scan flag of the call before it changes nothing at all)
IsQueryStep == <<lResult, lView, lScanned>>' # <<lResult, lView, lScanned>>

\* C9: a call of _find_link_regions for a buffer whose stored version is
\* the current one returns the cached list itself, does not scan and leaves
\* the cache alone; any other call scans, stores (current version, new list)
\* for that buffer alone and returns that new list, which is not the list
\* that was cached; either way the regions returned are those of the
\* buffer's current text.
C9_LinkCacheByVersion ==
  [][IsQueryStep =>
       LET b == views[lView']
           cache == _link_regions_cache
       IN /\ lResult'.regions = LinkRegions(buffers[b].text)
          /\ IF b \in DOMAIN cache
                  /\ cache[b].change_count = buffers[b].change_count
             THEN /\ ~lScanned'
                  /\ lResult' = [id |-> cache[b].id, regions |-> cache[b].regions]
                  /\ _link_regions_cache' = cache
             ELSE /\ lScanned'
                  /\ DOMAIN _link_regions_cache' = DOMAIN cache \cup {b}
                  /\ _link_regions_cache'[b] =
                       [change_count |-> buffers[b].change_count,
                        id |-> lResult'.id,
                        regions |-> lResult'.regions]
                  /\ b \in DOMAIN cache => lResult'.id # cache[b].id
                  /\ \A c \in DOMAIN cache \ {b} :
                       _link_regions_cache'[c] = cache[c]]_vars

\* the last call returned, without scanning, the list stored after an edit
C9_Witness ==
  /\ lView \in DOMAIN views
  /\ ~lScanned
  /\ LET b == views[lView]
     IN /\ b \in DOMAIN _link_regions_cache
        /\ buffers[b].change_count > 0
        /\ _link_regions_cache[b].change_count = buffers[b].change_count
        /\ lResult.id = _link_regions_cache[b].id
        /\ lResult.regions = LinkRegions(buffers[b].text)
        /\ \E c \in DOMAIN _link_regions_cache : c # b

\* a step that closes a view
IsCloseStep ==
  /\ DOMAIN views' # DOMAIN views
  /\ DOMAIN views' \subseteq DOMAIN views

\* C10: closing a view removes the cache entry of its buffer exactly when no
\* other view on that buffer stays open, leaves the cache alone otherwise,
\* and never touches the entries of other buffers.
C10_EntryRemovedIffLastView ==
  [][IsCloseStep =>
       LET v == CHOOSE w \in DOMAIN views \ DOMAIN views' : TRUE
           b == views[v]
           others == {w \in DOMAIN views \ {v} : views[w] = b}
       IN /\ others = {} => b \notin DOMAIN _link_regions_cache'
          /\ others # {} => _link_regions_cache' = _link_regions_cache
          /\ \A c \in DOMAIN _link_regions_cache \ {b} :
               /\ c \in DOMAIN _link_regions_cache'
               /\ _link_regions_cache'[c] = _link_regions_cache[c]]_vars

\* the span (begin, end), in 0-based offsets, is a shortest match of
\* [[...]]: it opens with '[[', closes with the first ']]' that leaves at
\* least one character between, and holds no line break
IsShortestMatch(text, begin, end) ==
  /\ end - begin >= 5
  /\ text[begin + 1] = "[" /\ text[begin + 2] = "["
  /\ text[end - 1] = "]" /\ text[end] = "]"
  /\ \A k \in (begin + 3)..(end - 2) : text[k] # "\n"
  /\ \A e \in (begin + 5)..(end - 1) : ~(text[e - 1] = "]" /\ text[e] = "]")

ShortestMatches(text) ==
  {r \in (0..Len(text)) \X (0..Len(text)) : IsShortestMatch(text, r[1], r[2])}

\* all non-overlapping matches, taken from the left: no two overlap, and a
\* match left out begins inside one that is taken
AllSpans(text) ==
  CHOOSE S \in SUBSET ShortestMatches(text) :
    /\ \A r, q \in S : r # q => (r[2] <= q[1] \/ q[2] <= r[1])
    /\ \A r \in ShortestMatches(text) :
         \E q \in S : q[1] <= r[1] /\ r[1] < q[2]

\* the buffers whose cache entry is of their current version
CurrentlyCached ==
  {b \in DOMAIN _link_regions_cache \cap DOMAIN buffers :
     _link_regions_cache[b].change_count = buffers[b].change_count}

\* C11: the regions _find_link_regions extracts from a text are, in text
\* order, all its non-overlapping shortest matches of [[...]] except exactly
\* those that begin inside a region the host reports as raw.
C11_SpansAreLinksOutsideRaw ==
  \A b \in CurrentlyCached :
    LET text == buffers[b].text
        regions == _link_regions_cache[b].regions
    IN /\ Range(regions) = {r \in AllSpans(text) : ~MatchRaw(text, r[1])}
       /\ \A i, j \in 1..Len(regions) : i < j => regions[i][2] <= regions[j][1]

\* one buffer holds [[a]] in inline code and in normal text and has the
\* normal one only extracted, another has both links of '[[a]] [[b]]'
C11_Witness ==
  \E b, c \in CurrentlyCached :
    /\ Cardinality(AllSpans(buffers[b].text)) = 2
    /\ Len(_link_regions_cache[b].regions) = 1
    /\ ~MatchRaw(buffers[b].text, _link_regions_cache[b].regions[1][1])
    /\ Len(_link_regions_cache[c].regions) = 2

(***************************************************************************)
(* Claims about the resolver, checked under SpecOpen.                      *)
(***************************************************************************)
\* the files of the directory that carry the title in some casing
CarriersOf(title) ==
  {f \in DOMAIN files :
     \E i \in 1..Len(TitlesOfEntry(f)) : Lower(TitlesOfEntry(f)[i]) = Lower(title)}

\* C8: the resolved file names are those of the index entries under the
\* lowercased title, in index order, and include every file that carries the
\* title in any casing; several results are all offered in the quick panel
\* and none is opened before a pick; a single result is opened; no entry
\* leads to the note-creation dialog and to no error.
C8_ResolveCaseInsensitive ==
  opc \in {"panel", "done"} =>
    LET notes == fResult.notes
        key == Lower(oTitle)
    IN IF key \in DOMAIN notes
       THEN /\ oFilenames = [i \in 1..Len(notes[key]) |->
                                _full_path(notes[key][i][2])]
            /\ \A f \in CarriersOf(oTitle) : _full_path(f) \in Range(oFilenames)
            /\ \A p \in Range(oFilenames) : Basename(p) \in CarriersOf(oTitle)
            /\ Len(oFilenames) > 1 =>
                 /\ oPanel = oFilenames
                 /\ opc = "panel" => oOpened = <<>>
                 /\ opc = "done" => (oOpened = <<>> \/
                                       \E p \in Range(oFilenames) : oOpened = <<p>>)
            /\ Len(oFilenames) = 1 =>
                 oPanel = <<>> /\ opc = "done" /\ oOpened = oFilenames
            /\ oDialog = NoFile /\ oCreated = NoFile /\ oError = NoFile
       ELSE /\ CarriersOf(oTitle) \subseteq (IF oCreated = NoFile THEN {}
                                                ELSE {Basename(oCreated)})
            /\ oFilenames = <<>> /\ oPanel = <<>>
            /\ opc = "done"
            /\ oDialog = oTitle \o <<".">> \o markdown_extension
            /\ oOpened = (IF oCreated = NoFile THEN <<>> ELSE <<oCreated>>)

\* the title "A" resolved to two different files, offered in the panel
C8_Witness ==
  /\ opc = "panel"
  /\ oTitle = <<"A">>
  /\ Len(oFilenames) = 2
  /\ oFilenames[1] # oFilenames[2]
  /\ oPanel = oFilenames
  /\ oOpened = <<>>

\* a step of _open_note that found no entry and called _create_note
IsCreateNoteStep == opc = "query" /\ opc' = "done" /\ oDialog' # NoFile

\* '<T>.<ext>' in the directory of the view's file
NewNotePath == <<NotesDir, "/">> \o oTitle \o <<".">> \o markdown_extension

\* C21: creating a note titled T from a document whose primary title is B
\* gives, when confirmed and written, the file '<T>.<ext>' in the same
\* directory with the text '# T\n\nSee also:\n\n- [[B]]\n', returned and
\* opened; when cancelled or when open fails, no file is created or changed
\* and nothing is returned or opened, and a failure is reported with the path.
C21_CreateNoteFromTemplate ==
  [][IsCreateNoteStep =>
       /\ oDialog' = oTitle \o <<".">> \o markdown_extension
       /\ oCreated' # NoFile =>
            /\ oCreated' = NewNotePath
            /\ Basename(NewNotePath) \in DOMAIN files'
            /\ files'[Basename(NewNotePath)] =
                 NoteText(oTitle, PrimaryTitle(SplitExt(viewFile)[1]))
            /\ \A n \in DOMAIN files \ {Basename(NewNotePath)} :
                 n \in DOMAIN files' /\ files'[n] = files[n]
            /\ oOutside' = oOutside
            /\ oOpened' = <<oCreated'>>
            /\ oError' = NoFile
       /\ oCreated' = NoFile =>
            /\ files' = files /\ oOutside' = oOutside
            /\ oOpened' = <<>>
            /\ oError' \in {NoFile, NewNotePath}]_vars

Init ==
  TitlesOff /\ DirInit /\ NotesInit /\ OpenOff /\ LinksOff /\ RenameOff

Next ==
  \/ FindNotesHit
  \/ FindNotesMiss
  \/ FindNotesList
  \/ FindNotesStore
  \/ \E name \in NamePool : ExtAdd(name)
  \/ \E name \in NamePool : ExtRemove(name)
  \/ \E old, new \in NamePool : ExtRename(old, new)

Spec == Init /\ [][Next]_vars

(***************************************************************************)
(* Claims about the directory index and its cache, checked under Spec.     *)
(***************************************************************************)
\* the index a scan of the directory's present entries builds, for some
\* order of listing
IsFreshIndex(notes) ==
  \E listing \in Listings(DOMAIN files) : BuildNotes(<<>>, listing) = notes

\* C1: in every reachable state, if the mtime stored in the cache entry is
\* the directory's current mtime, the cached index is the index a fresh scan
\* of the directory's current contents produces.
C1_EqualMtimeMeansFreshIndex ==
  (NotesDir \in DOMAIN _notes_cache /\ CachedMtime = dirMtime)
  => IsFreshIndex(_notes_cache[NotesDir].notes)

\* C3: a query made while the stored mtime is the directory's returns the
\* cached object itself, does not go on to list the directory, and leaves
\* the cache entry as it is; so does every further such query.
C3_UnchangedMtimeReturnsCachedObject ==
  [][(/\ fpc = "idle"
      /\ NotesDir \in DOMAIN _notes_cache
      /\ CachedMtime = dirMtime
      /\ UNCHANGED dvars)
     => (/\ fpc' = "idle"
         /\ fResult' = CachedObj
         /\ fResult'.id = _notes_cache[NotesDir].id
         /\ _notes_cache' = _notes_cache
         /\ nextId' = nextId)]_vars

\* two consecutive queries were answered with the cached object
C3_Witness ==
  /\ hits = 2
  /\ fpc = "idle"
  /\ CachedMtime = dirMtime
  /\ fResult = CachedObj
  /\ Cardinality(DOMAIN fResult.notes) >= 2

\* C4: when the directory was changed after it was last listed, the query
\* that begins next does not find the stored mtime equal to the directory's,
\* so it rebuilds the index.
C4_ChangeForcesRebuild ==
  (fpc = "idle" /\ dirty) => CachedMtime # dirMtime

\* the (title, file name) pairs of a listing, file by file in listing order
\* and title by title in file-name order
RECURSIVE PairsOf(_)
PairsOf(listing) ==
  IF listing = <<>> THEN <<>>
  ELSE LET name == Head(listing)
           se == SplitExt(name)
           ts == IF se[2] \in _MARKDOWN_EXTENSIONS THEN _titles(se[1]) ELSE <<>>
       IN [i \in 1..Len(ts) |-> <<ts[i], name>>] \o PairsOf(Tail(listing))

NonEmptyPieces(base) ==
  SelectSeq([i \in 1..Len(Split(base, _TITLE_SEP)) |->
               Strip(Split(base, _TITLE_SEP)[i])], LAMBDA t : t # <<>>)

\* C6: for every base name that holds a title, the parsed title set holds no
\* empty string and the primary title is the first non-empty trimmed piece.
C6_EmptyPiecesDiscarded ==
  (tpc = "titled" /\ NonEmptyPieces(Join(tTitles, _TITLE_SEP)) # <<>>) =>
    /\ \A i \in DOMAIN tResult : tResult[i] # <<>>
    /\ tPrimary = NonEmptyPieces(Join(tTitles, _TITLE_SEP))[1]

IsTrimmed(t) == Strip(t) = t

HasNonDot(s) == \E i \in 1..Len(s) : s[i] # "."

\* C7 as stated: for every list of non-empty titles without the separator,
\* building the file name with a recognized extension and parsing it
\* recovers the list.
C7_RoundTrip ==
  (/\ tpc = "parsed"
   /\ tExt \in _MARKDOWN_EXTENSIONS
   /\ \A i \in DOMAIN tTitles : tTitles[i] # <<>>)
  => tParsed = tTitles

\* C7 amended: the round trip recovers the list when, in addition, every
\* title is free of leading and trailing whitespace and the joined base name
\* holds a character other than the dot.
C7_RoundTripTrimmed ==
  (/\ tpc = "parsed"
   /\ tExt \in _MARKDOWN_EXTENSIONS
   /\ \A i \in DOMAIN tTitles : IsTrimmed(tTitles[i])
   /\ HasNonDot(Join(tTitles, _TITLE_SEP)))
  => tParsed = tTitles

\* a two-title name with a dot inside a title has been built and parsed back
C7_Witness ==
  /\ tpc = "parsed"
  /\ tExt = ExtMarkdown
  /\ tTitles = <<<<"a", ".">>, <<".", "a">>>>
  /\ tParsed = tTitles

InitTitles ==
  TitlesInit /\ DirOff /\ NotesOff /\ OpenOff /\ LinksOff /\ RenameOff

SpecTitles == InitTitles /\ [][TitlesNext]_vars

====
